---- MODULE Spec2Model ----
(***************************************************************************)
(* Model of deeppavlov/models/coreference_resolution/model.py (CorefModel). *)
(* Python arrays are functions over 0..n-1, so that indices read as in the  *)
(* source.  A span is a pair <<start, end>>.                                *)
(***************************************************************************)
EXTENDS Integers, Sequences, FiniteSets, TLC

\* ------------------------------------------------------------------ bounds
MaxMentions == 3
MaxAnt == 2

\* values the networks may produce (floats abstracted to a few integers)
FfnnVals == {-2, 1}
MentionScoreVals == {0, 1}
\* the spans the decoded mentions are drawn from
SpanPool == {<<0, 0>>, <<0, 1>>, <<2, 2>>}

\* ------------------------------------------------------- array helpers
Size(f) == Cardinality(DOMAIN f)
Empty == [x \in {} |-> 0]
Push(f, v) == [k \in 0..Size(f) |-> IF k < Size(f) THEN f[k] ELSE v]
Elems(f) == {f[k] : k \in DOMAIN f}
Put(d, k, v) == [x \in (DOMAIN d) \cup {k} |-> IF x = k THEN v ELSE d[x]]
SpanLess(a, b) == a[1] < b[1] \/ (a[1] = b[1] /\ a[2] < b[2])
SpanLeq(a, b) == a = b \/ SpanLess(a, b)
Arrays(n, S) == [0..(n - 1) -> S]
SortedArrays(n, S) == {f \in Arrays(n, S) : \A k \in 1..(n - 1) : SpanLeq(f[k - 1], f[k])}

\* tf.log(0.0): the value a masked (padding) slot receives
NegInf == -1000
Plus(a, b) == IF a = NegInf \/ b = NegInf THEN NegInf ELSE a + b

VARIABLES
    pc,                     \* position of the modelled call
    mention_starts, mention_ends,
    pair_scores,            \* output of the antecedent_scoring ffnn (model.py:481-484)
    mention_scores,
    antecedents, antecedents_len,
    antecedent_scores,
    predicted_antecedents,
    predicted_clusters, mention_to_predicted,
    assert_failed,          \* the assertion of get_predicted_clusters was violated
    m2p_ids,                \* the dictionaries get_predicted_clusters builds (before line 757)
    cluster_lists,
    first_result,           \* what the first decode of these tensors returned
    runs,
    \* the example handed to train_on_batch / __call__
    doc_text_len,           \* number of tokens of each sentence
    doc_speakers,           \* speaker label of each token (flattened)
    doc_clusters,           \* gold clusters: array of arrays of spans
    \* the tensors tensorize_example returns
    is_training,
    word_emb, char_index, text_len, speaker_ids, speaker_dict,
    gold_starts, gold_ends, cluster_ids,
    sentence_offset, word_offset,
    antecedent_labels,      \* labels returned by get_antecedents
    \* the constructed model: configuration, feed queue, session, optimizer state
    emb_format,
    hyper,                  \* learning_rate, decay_rate, decay_frequency, final_rate
    queue_created, graph_built,
    sess,                   \* "none", "open" or "closed"
    destroyed,              \* destroy() has been called
    queue,                  \* content of the PaddingFIFOQueue
    global_step,
    params,                 \* number of optimizer updates applied to the parameters
    last_op,                \* the method the last step belongs to
    call_doc,               \* the example of the current (or last) call
    call_enq, call_deq,     \* examples the current call has enqueued / dequeued
    consumed,               \* the tensors the last graph run computed on
    outcome,                \* what the last method call returned or raised
    lr_used,                \* learning rate of the last optimizer update
    \* mention detection (train_on_gold off)
    max_mention_width, mention_ratio,
    candidate_starts, candidate_ends,
    \* distance feature of get_antecedent_scores
    mention_distance, mention_distance_bins,
    \* ChitchatQASelector
    rest_caller_names,      \* rest_caller.names
    skill_names_map,        \* the map built by __init__
    predicted_names,        \* the selector names of the REST response, one per dialog
    skill_names,            \* what __call__ returned
    selector_error,         \* the exception __call__ raised, "none" if it returned
    \* get_mention_emb
    train_on_gold,
    mention_width, mention_width_index,
    mention_indices,        \* token positions the head attention reads, per mention
    mention_mask,           \* which of them the attention keeps
    \* two threads calling one model
    thread_pc, thread_op, thread_doc,
    thread_consumed,        \* the tensors the graph run of the thread dequeued
    thread_outcome,
    \* BertRankerModel
    batch_size, num_ranking_samples,
    resps_given, resp_vecs_given,   \* resps is not None / resp_vecs is not None
    resp_feature_list,      \* resp_features[0]
    resp_features,          \* self.resp_features, the batches
    resp_vecs,              \* the rows self.resp_vecs got from the precomputation
    ranker_result           \* how the precomputation call ended

decodeVars == <<mention_starts, mention_ends, pair_scores, mention_scores, antecedents,
                antecedents_len, antecedent_scores, predicted_antecedents,
                predicted_clusters, mention_to_predicted, assert_failed, m2p_ids,
                cluster_lists, first_result, runs>>

docVars == <<doc_text_len, doc_speakers, doc_clusters>>

tensorVars == <<is_training, word_emb, char_index, text_len, speaker_ids, speaker_dict,
                gold_starts, gold_ends, cluster_ids, sentence_offset, word_offset>>

sessionVars == <<emb_format, hyper, queue_created, graph_built, sess, destroyed, queue,
                 global_step, params, last_op, call_doc, call_enq, call_deq, consumed,
                 outcome, lr_used>>

mentionVars == <<max_mention_width, mention_ratio, candidate_starts, candidate_ends>>

binVars == <<mention_distance, mention_distance_bins>>

selectorVars == <<rest_caller_names, skill_names_map, predicted_names, skill_names, selector_error>>

embVars == <<train_on_gold, mention_width, mention_width_index, mention_indices, mention_mask>>

threadVars == <<thread_pc, thread_op, thread_doc, thread_consumed, thread_outcome>>

rankerVars == <<batch_size, num_ranking_samples, resps_given, resp_vecs_given, resp_feature_list,
                resp_features, resp_vecs, ranker_result>>

extraVars == <<selectorVars, embVars, threadVars, rankerVars>>

restVars == <<sessionVars, mentionVars, binVars, extraVars>>

vars == <<pc, decodeVars, docVars, tensorVars, antecedent_labels, restVars>>

\* rationals as <<numerator, denominator>> with a positive denominator
Rat(n, d) == <<n, d>>
RatTimes(a, b) == <<a[1] * b[1], a[2] * b[2]>>
RatLess(a, b) == a[1] * b[2] < b[1] * a[2]
RatLeq(a, b) == a[1] * b[2] <= b[1] * a[2]
RatEq(a, b) == a[1] * b[2] = b[1] * a[2]

NoRate == Rat(0, 1)
NoDoc == [doc_key |-> 0, num_words |-> 0, num_speakers |-> 0]
NoTensors == [doc_key |-> 0, num_words |-> 0, is_training |-> FALSE]
NoHyper == [learning_rate |-> NoRate, decay_rate |-> NoRate, decay_frequency |-> 1,
            final_rate |-> NoRate]

\* no model object is involved
NoSession ==
    /\ emb_format = "std_emb"
    /\ hyper = NoHyper
    /\ queue_created = FALSE
    /\ graph_built = FALSE
    /\ sess = "none"
    /\ destroyed = FALSE
    /\ queue = <<>>
    /\ global_step = 0
    /\ params = 0
    /\ last_op = "none"
    /\ call_doc = NoDoc
    /\ call_enq = 0
    /\ call_deq = 0
    /\ consumed = NoTensors
    /\ outcome = "none"
    /\ lr_used = NoRate

\* mention detection has not run
NoMentions ==
    /\ max_mention_width = 0
    /\ mention_ratio = NoRate
    /\ candidate_starts = Empty
    /\ candidate_ends = Empty

\* the distance feature has not been computed
NoBins ==
    /\ mention_distance = Empty
    /\ mention_distance_bins = Empty

\* no skill selector is involved
NoSelector ==
    /\ rest_caller_names = <<>>
    /\ skill_names_map = Empty
    /\ predicted_names = <<>>
    /\ skill_names = <<>>
    /\ selector_error = "none"

\* get_mention_emb has not run
NoEmb ==
    /\ train_on_gold = TRUE
    /\ mention_width = Empty
    /\ mention_width_index = Empty
    /\ mention_indices = Empty
    /\ mention_mask = Empty

\* no concurrent callers
NoThreads ==
    /\ thread_pc = <<>>
    /\ thread_op = <<>>
    /\ thread_doc = <<>>
    /\ thread_consumed = <<>>
    /\ thread_outcome = <<>>

\* no BertRankerModel is involved
NoRanker ==
    /\ batch_size = 1
    /\ num_ranking_samples = 0
    /\ resps_given = FALSE
    /\ resp_vecs_given = FALSE
    /\ resp_feature_list = <<>>
    /\ resp_features = <<>>
    /\ resp_vecs = <<>>
    /\ ranker_result = "none"

NoExtra == NoSelector /\ NoEmb /\ NoThreads /\ NoRanker

RestIdle == NoSession /\ NoMentions /\ NoBins /\ NoExtra

\* no example has been handed over
NoExample ==
    /\ doc_text_len = Empty
    /\ doc_speakers = Empty
    /\ doc_clusters = Empty
    /\ is_training = FALSE
    /\ word_emb = Empty
    /\ char_index = Empty
    /\ text_len = Empty
    /\ speaker_ids = Empty
    /\ speaker_dict = Empty
    /\ gold_starts = Empty
    /\ gold_ends = Empty
    /\ cluster_ids = Empty
    /\ sentence_offset = 0
    /\ word_offset = 0
    /\ antecedent_labels = Empty

\* ------------------------------------------------ antecedent candidates
\* tf_ops.get_antecedents: the nearest preceding mentions, in document order,
\* padded with index 0.
AntecedentsLen(n, max_antecedents) ==
    [i \in 0..(n - 1) |-> IF i < max_antecedents THEN i ELSE max_antecedents]

\* candidate lists made of the first mentions of the document
AntecedentsFarthest(n, max_antecedents) ==
    [i \in 0..(n - 1) |->
        [c \in 0..(max_antecedents - 1) |->
            IF c < AntecedentsLen(n, max_antecedents)[i] THEN c ELSE 0]]

Antecedents(n, max_antecedents) ==
    [i \in 0..(n - 1) |->
        [c \in 0..(max_antecedents - 1) |->
            IF c < AntecedentsLen(n, max_antecedents)[i]
            THEN i - AntecedentsLen(n, max_antecedents)[i] + c
            ELSE 0]]

\* ------------------------------------------------ get_antecedent_scores
AntecedentMaskNone(len, c) == 0

\* tf.log(tf.sequence_mask(antecedents_len, max_antecedents))
AntecedentMask(len, c) == IF c < len THEN 0 ELSE NegInf

GetAntecedentScores(pairs, mscores, ants, lens) ==
    [i \in DOMAIN ants |->
        [c \in 0..MaxAnt |->
            IF c = 0 THEN 0
            ELSE Plus(Plus(pairs[i][c - 1], AntecedentMask(lens[i], c - 1)),
                      mscores[i] + mscores[ants[i][c - 1]])]]

\* ------------------------------------------------ get_predicted_antecedents
\* np.argmax: the first index holding the maximum
\* an argmax that returns the last of several maximal positions
ArgMaxLast(row) ==
    CHOOSE k \in DOMAIN row :
        /\ \A m \in DOMAIN row : row[m] <= row[k]
        /\ \A m \in DOMAIN row : m > k => row[m] < row[k]

ArgMax(row) ==
    CHOOSE k \in DOMAIN row :
        /\ \A m \in DOMAIN row : row[m] <= row[k]
        /\ \A m \in DOMAIN row : m < k => row[m] < row[k]

GetPredictedAntecedents(ants, scores) ==
    [i \in DOMAIN scores |->
        LET index == ArgMax(scores[i]) - 1
        IN  IF index < 0 THEN -1 ELSE ants[i][index]]

\* ------------------------------------------------ get_predicted_clusters
EmptyDecode == [m2p |-> Empty, clusters |-> Empty, failed |-> FALSE]

\* a decoder that also opens a cluster for a mention without antecedent
ClusterStepSingletons(st, starts, ends, preds, i) ==
    LET predicted_index == preds[i]
        mention == <<starts[i], ends[i]>>
    IN
    IF st.failed THEN st
    ELSE IF predicted_index < 0 THEN
        IF mention \in DOMAIN st.m2p THEN st
        ELSE [m2p |-> Put(st.m2p, mention, Size(st.clusters)),
              clusters |-> Push(st.clusters, Push(Empty, mention)),
              failed |-> FALSE]
    ELSE IF ~(i > predicted_index) THEN [st EXCEPT !.failed = TRUE]
    ELSE
        LET predicted_antecedent == <<starts[predicted_index], ends[predicted_index]>>
            predicted_cluster == st.m2p[predicted_antecedent]
        IN  [m2p |-> Put(st.m2p, mention, predicted_cluster),
             clusters |-> [st.clusters EXCEPT ![predicted_cluster] = Push(@, mention)],
             failed |-> FALSE]

\* a decoder that opens a new cluster for every antecedent link
ClusterStepAlwaysNew(st, starts, ends, preds, i) ==
    LET predicted_index == preds[i] IN
    IF st.failed \/ predicted_index < 0 THEN st
    ELSE IF ~(i > predicted_index) THEN [st EXCEPT !.failed = TRUE]
    ELSE
        LET predicted_antecedent == <<starts[predicted_index], ends[predicted_index]>>
            predicted_cluster == Size(st.clusters)
            mention == <<starts[i], ends[i]>>
        IN  [m2p |-> Put(Put(st.m2p, predicted_antecedent, predicted_cluster),
                         mention, predicted_cluster),
             clusters |-> Push(st.clusters, Push(Push(Empty, predicted_antecedent), mention)),
             failed |-> FALSE]

\* a decoder that forgets to record the cluster of the mention it appends (line 755)
ClusterStepNoRecord(st, starts, ends, preds, i) ==
    LET predicted_index == preds[i] IN
    IF st.failed \/ predicted_index < 0 THEN st
    ELSE IF ~(i > predicted_index) THEN [st EXCEPT !.failed = TRUE]
    ELSE
        LET predicted_antecedent == <<starts[predicted_index], ends[predicted_index]>>
            known == predicted_antecedent \in DOMAIN st.m2p
            predicted_cluster == IF known THEN st.m2p[predicted_antecedent]
                                 ELSE Size(st.clusters)
            clusters1 == IF known THEN st.clusters
                         ELSE Push(st.clusters, Push(Empty, predicted_antecedent))
            m2p1 == IF known THEN st.m2p
                    ELSE Put(st.m2p, predicted_antecedent, predicted_cluster)
            mention == <<starts[i], ends[i]>>
        IN  [m2p |-> m2p1,
             clusters |-> [clusters1 EXCEPT ![predicted_cluster] = Push(@, mention)],
             failed |-> FALSE]

\* a decoder that puts a mention in front of the members of its cluster
ClusterStepPrepend(st, starts, ends, preds, i) ==
    LET predicted_index == preds[i] IN
    IF st.failed \/ predicted_index < 0 THEN st
    ELSE IF ~(i > predicted_index) THEN [st EXCEPT !.failed = TRUE]
    ELSE
        LET predicted_antecedent == <<starts[predicted_index], ends[predicted_index]>>
            known == predicted_antecedent \in DOMAIN st.m2p
            predicted_cluster == IF known THEN st.m2p[predicted_antecedent]
                                 ELSE Size(st.clusters)
            clusters1 == IF known THEN st.clusters
                         ELSE Push(st.clusters, Push(Empty, predicted_antecedent))
            m2p1 == IF known THEN st.m2p
                    ELSE Put(st.m2p, predicted_antecedent, predicted_cluster)
            mention == <<starts[i], ends[i]>>
            front(f) == [k \in 0..Size(f) |-> IF k = 0 THEN mention ELSE f[k - 1]]
        IN  [m2p |-> Put(m2p1, mention, predicted_cluster),
             clusters |-> [clusters1 EXCEPT ![predicted_cluster] = front(@)],
             failed |-> FALSE]

\* one iteration of the loop of lines 741-755
ClusterStep(st, starts, ends, preds, i) ==
    LET predicted_index == preds[i] IN
    IF st.failed \/ predicted_index < 0 THEN st
    ELSE IF ~(i > predicted_index) THEN [st EXCEPT !.failed = TRUE]
    ELSE
        LET predicted_antecedent == <<starts[predicted_index], ends[predicted_index]>>
            known == predicted_antecedent \in DOMAIN st.m2p
            predicted_cluster == IF known THEN st.m2p[predicted_antecedent]
                                 ELSE Size(st.clusters)
            clusters1 == IF known THEN st.clusters
                         ELSE Push(st.clusters, Push(Empty, predicted_antecedent))
            m2p1 == IF known THEN st.m2p
                    ELSE Put(st.m2p, predicted_antecedent, predicted_cluster)
            mention == <<starts[i], ends[i]>>
        IN  [m2p |-> Put(m2p1, mention, predicted_cluster),
             clusters |-> [clusters1 EXCEPT ![predicted_cluster] = Push(@, mention)],
             failed |-> FALSE]

RECURSIVE ClusterLoop(_, _, _, _, _)
ClusterLoop(st, starts, ends, preds, i) ==
    IF i >= Size(preds) THEN st
    ELSE ClusterLoop(ClusterStep(st, starts, ends, preds, i), starts, ends, preds, i + 1)

\* lines 757-758: the dictionary maps each span to its cluster tuple
MentionToPredicted(st) == [m \in DOMAIN st.m2p |-> st.clusters[st.m2p[m]]]

\* ------------------------------------------------------------ the call
InitDecode ==
    /\ pc = "start"
    /\ \E n \in 0..MaxMentions :
        /\ \E spans \in SortedArrays(n, SpanPool) :
            /\ mention_starts = [i \in 0..(n - 1) |-> spans[i][1]]
            /\ mention_ends = [i \in 0..(n - 1) |-> spans[i][2]]
        /\ pair_scores \in Arrays(n, Arrays(MaxAnt, FfnnVals))
        /\ \E v \in MentionScoreVals : mention_scores = [i \in 0..(n - 1) |-> v]
    /\ antecedents = Empty
    /\ antecedents_len = Empty
    /\ antecedent_scores = Empty
    /\ predicted_antecedents = Empty
    /\ predicted_clusters = Empty
    /\ mention_to_predicted = Empty
    /\ assert_failed = FALSE
    /\ m2p_ids = Empty
    /\ cluster_lists = Empty
    /\ first_result = Empty
    /\ runs = 0
    /\ NoExample
    /\ RestIdle

\* self.sess.run(self.predictions), model.py:791
RunPredictions ==
    /\ pc = "start"
    /\ antecedents' = Antecedents(Size(mention_starts), MaxAnt)
    /\ antecedents_len' = AntecedentsLen(Size(mention_starts), MaxAnt)
    /\ antecedent_scores' = GetAntecedentScores(pair_scores, mention_scores,
                                                 antecedents', antecedents_len')
    /\ pc' = "predicted"
    /\ UNCHANGED <<mention_starts, mention_ends, pair_scores, mention_scores,
                   predicted_antecedents, predicted_clusters, mention_to_predicted,
                   assert_failed, m2p_ids, cluster_lists, first_result, runs,
                   docVars, tensorVars, antecedent_labels, restVars>>

\* a decoder that keeps its dictionaries from one call to the next
DecodeKeeping ==
    /\ pc = "predicted"
    /\ predicted_antecedents' = GetPredictedAntecedents(antecedents, antecedent_scores)
    /\ LET st == ClusterLoop([m2p |-> m2p_ids, clusters |-> cluster_lists, failed |-> FALSE],
                             mention_starts, mention_ends, predicted_antecedents', 0)
       IN  /\ m2p_ids' = st.m2p
           /\ cluster_lists' = st.clusters
           /\ assert_failed' = st.failed
           /\ predicted_clusters' = IF st.failed THEN predicted_clusters ELSE st.clusters
           /\ mention_to_predicted' = IF st.failed THEN mention_to_predicted
                                      ELSE MentionToPredicted(st)
    /\ runs' = runs + 1
    /\ pc' = "decoded"
    /\ UNCHANGED <<mention_starts, mention_ends, pair_scores, mention_scores, antecedents,
                   antecedents_len, antecedent_scores, first_result,
                   docVars, tensorVars, antecedent_labels, restVars>>

\* model.py:793-798: get_predicted_antecedents, then get_predicted_clusters
Decode ==
    /\ pc = "predicted"
    /\ predicted_antecedents' = GetPredictedAntecedents(antecedents, antecedent_scores)
    /\ LET st == ClusterLoop(EmptyDecode, mention_starts, mention_ends,
                             predicted_antecedents', 0)
       IN  /\ m2p_ids' = st.m2p
           /\ cluster_lists' = st.clusters
           /\ assert_failed' = st.failed
           /\ predicted_clusters' = IF st.failed THEN predicted_clusters ELSE st.clusters
           /\ mention_to_predicted' = IF st.failed THEN mention_to_predicted
                                      ELSE MentionToPredicted(st)
    /\ runs' = runs + 1
    /\ pc' = "decoded"
    /\ UNCHANGED <<mention_starts, mention_ends, pair_scores, mention_scores, antecedents,
                   antecedents_len, antecedent_scores, first_result,
                   docVars, tensorVars, antecedent_labels, restVars>>

\* the caller decodes the same tensors once more
DecodeAgain ==
    /\ pc = "decoded"
    /\ runs = 1
    /\ first_result' = <<predicted_antecedents, predicted_clusters, mention_to_predicted>>
    /\ pc' = "predicted"
    /\ UNCHANGED <<mention_starts, mention_ends, pair_scores, mention_scores, antecedents,
                   antecedents_len, antecedent_scores, predicted_antecedents,
                   predicted_clusters, mention_to_predicted, assert_failed, m2p_ids,
                   cluster_lists, runs, docVars, tensorVars, antecedent_labels,
                   restVars>>

NextDecode == RunPredictions \/ Decode \/ DecodeAgain

SpecDecode == InitDecode /\ [][NextDecode]_vars

\* ------------------------------------------------------------ decode claims
NumMentions == Size(mention_starts)
SpanOf(i) == <<mention_starts[i], mention_ends[i]>>
DistinctSpans == \A i, j \in 0..(NumMentions - 1) : i # j => SpanOf(i) # SpanOf(j)
Decoded == pc = "decoded"
ClusterSpans(k) == Elems(predicted_clusters[k])
AllClusterSpans == UNION {ClusterSpans(k) : k \in DOMAIN predicted_clusters}
ShareCluster(a, b) == \E k \in DOMAIN predicted_clusters : a \in ClusterSpans(k) /\ b \in ClusterSpans(k)

\* j is reached from i by following predicted antecedents
RECURSIVE Reaches(_, _)
Reaches(i, j) ==
    /\ predicted_antecedents[i] >= 0
    /\ predicted_antecedents[i] < i
    /\ (predicted_antecedents[i] = j \/ Reaches(predicted_antecedents[i], j))

\* C1: every antecedent chosen by get_predicted_antecedents is -1 or a strictly
\* earlier mention index, so the assertion of get_predicted_clusters never fails.
C1_AntecedentEarlier ==
    Decoded =>
        /\ ~assert_failed
        /\ \A i \in DOMAIN predicted_antecedents :
              predicted_antecedents[i] = -1
              \/ (predicted_antecedents[i] >= 0 /\ predicted_antecedents[i] < i)

\* C1 witness: a decode where a mention has an antecedent while some padding slot
\* carries a raw score above the 'no antecedent' score.
C1_Witness ==
    /\ Decoded
    /\ \E i \in DOMAIN predicted_antecedents : predicted_antecedents[i] >= 0
    /\ \E i \in DOMAIN predicted_antecedents :
          \E c \in 0..(MaxAnt - 1) :
              c >= antecedents_len[i] /\ pair_scores[i][c] + 2 * mention_scores[i] > 0

LinkedSpans ==
    {SpanOf(i) : i \in {k \in DOMAIN predicted_antecedents : predicted_antecedents[k] >= 0}}
    \cup {SpanOf(predicted_antecedents[i]) :
              i \in {k \in DOMAIN predicted_antecedents : predicted_antecedents[k] >= 0}}

\* C3 (as claimed): every mention whose best slot is 'no antecedent' is a key of the
\* returned mapping and member of a cluster.
C3_Original ==
    Decoded =>
        \A i \in DOMAIN predicted_antecedents :
            predicted_antecedents[i] = -1 =>
                /\ SpanOf(i) \in DOMAIN mention_to_predicted
                /\ SpanOf(i) \in AllClusterSpans

\* C3 (amended): the keys of the mapping and the members of the clusters are exactly
\* the spans of mentions that have an antecedent or are chosen as one; a mention
\* without antecedent that nobody chooses has no entry.
C3_OnlyLinkedMentions ==
    Decoded =>
        /\ DOMAIN mention_to_predicted = LinkedSpans
        /\ AllClusterSpans = LinkedSpans

\* C3 witness: one mention is clustered, another has no antecedent and no entry.
C3_Witness ==
    /\ Decoded
    /\ \E i \in DOMAIN predicted_antecedents : predicted_antecedents[i] >= 0
    /\ \E i \in DOMAIN predicted_antecedents :
          predicted_antecedents[i] = -1 /\ SpanOf(i) \notin DOMAIN mention_to_predicted

Partition ==
    /\ \A k, l \in DOMAIN predicted_clusters :
          k # l => ClusterSpans(k) \cap ClusterSpans(l) = {}
    /\ \A k \in DOMAIN predicted_clusters :
          \A a, b \in DOMAIN predicted_clusters[k] :
              a # b => predicted_clusters[k][a] # predicted_clusters[k][b]
    /\ AllClusterSpans \subseteq DOMAIN mention_to_predicted
    /\ \A m \in DOMAIN mention_to_predicted :
          /\ m \in Elems(mention_to_predicted[m])
          /\ \A k \in DOMAIN predicted_clusters :
                m \in ClusterSpans(k) => mention_to_predicted[m] = predicted_clusters[k]

MaxSentences == 2
\* self.max_training_sentences of the modelled configuration
MaxTrainingSentences == 1
ClusterCounts == {0, 1, 2}
SentLens == {1, 2}
ClusterSizes == {1, 2}
SpeakerNames == {"A", "B"}

Min(a, b) == IF a < b THEN a ELSE b

\* sum of f[a .. b-1], as numpy's f[a:b].sum()
RECURSIVE SumRange(_, _, _)
SumRange(f, a, b) ==
    IF a >= Min(b, Size(f)) THEN 0 ELSE f[a] + SumRange(f, a + 1, b)

\* the Python slice f[a:b] for 0 <= a
Slice(f, a, b) ==
    LET hi == Min(b, Size(f))
        n == IF hi > a THEN hi - a ELSE 0
    IN  [k \in 0..(n - 1) |-> f[a + k]]

\* f[mask] for a boolean mask given as the set of kept indices
Nth(keep, k) == CHOOSE i \in keep : Cardinality({j \in keep : j < i}) = k
Masked(f, keep) == [k \in 0..(Cardinality(keep) - 1) |-> f[Nth(keep, k)]]

\* custom_layers.flatten: the members of all clusters in order
RECURSIVE FlattenFrom(_, _)
FlattenFrom(cl, k) ==
    IF k >= Size(cl) THEN Empty
    ELSE LET rest == FlattenFrom(cl, k + 1)
         IN  [x \in 0..(Size(cl[k]) + Size(rest) - 1) |->
                 IF x < Size(cl[k]) THEN cl[k][x] ELSE rest[x - Size(cl[k])]]
Flatten(cl) == FlattenFrom(cl, 0)

Count(f, v) == Cardinality({k \in DOMAIN f : f[k] = v})

\* sorted(...) of a list of spans: the element of rank k goes to position k
SortSpans(f) ==
    LET rank(i) == Cardinality({j \in DOMAIN f : SpanLess(f[j], f[i]) \/ (f[j] = f[i] /\ j < i)})
    IN  [k \in DOMAIN f |-> f[CHOOSE i \in DOMAIN f : rank(i) = k]]

\* model.py:232
GoldMentions(clusters) == SortSpans(Flatten(clusters))

\* model.py:233: a later index replaces an earlier one for the same key
GoldMentionMap(gm) ==
    [m \in Elems(gm) |-> CHOOSE i \in DOMAIN gm : gm[i] = m /\ \A j \in DOMAIN gm : gm[j] = m => j <= i]

\* model.py:234-238: zeros, then every mention of cluster number cluster_id (counted
\* from 0 by enumerate) stores cluster_id; the last store wins
ClusterIds(clusters, gm) ==
    LET stores(k) == {c \in DOMAIN clusters :
                         \E x \in DOMAIN clusters[c] : GoldMentionMap(gm)[clusters[c][x]] = k}
    IN  [k \in DOMAIN gm |->
            IF stores(k) = {} THEN 0
            ELSE CHOOSE c \in stores(k) : \A d \in stores(k) : d <= c]

\* model.py:271, tensorize_mentions
TensorizeMentions(gm) ==
    [starts |-> [k \in DOMAIN gm |-> gm[k][1]], ends |-> [k \in DOMAIN gm |-> gm[k][2]]]

\* the rows of word_emb and char_index: row s holds the data of sentence s
WordEmb(tl) == [s \in DOMAIN tl |-> <<"emb", s>>]
CharIndex(tl) == [s \in DOMAIN tl |-> <<"chars", s>>]

\* model.py:266: an enumeration of set(speakers), in whatever order the set iterates
SpeakerDicts(speakers) ==
    {d \in [Elems(speakers) -> 0..(Cardinality(Elems(speakers)) - 1)] :
        \A a, b \in Elems(speakers) : a # b => d[a] # d[b]}

\* a truncation whose gold spans keep their document offsets
TruncateGoldNoOffset(gs, ge, cids, wo, nw) ==
    LET gold_spans == {i \in DOMAIN ge : ge[i] >= wo /\ gs[i] < wo + nw}
    IN  [gold_starts |-> Masked(gs, gold_spans),
         gold_ends |-> Masked(ge, gold_spans),
         cluster_ids |-> Masked(cids, gold_spans)]

\* model.py:322-336
TruncateGold(gs, ge, cids, wo, nw) ==
    LET gold_spans == {i \in DOMAIN ge : ge[i] >= wo /\ gs[i] < wo + nw}
    IN  [gold_starts |-> [k \in 0..(Cardinality(gold_spans) - 1) |-> gs[Nth(gold_spans, k)] - wo],
         gold_ends |-> [k \in 0..(Cardinality(gold_spans) - 1) |-> ge[Nth(gold_spans, k)] - wo],
         cluster_ids |-> Masked(cids, gold_spans)]

\* a truncation that cuts the speakers at the sentence offset instead of the word offset
TruncateSpeakersBySentence(sp, so, wo, nw) == Slice(sp, so, so + nw)

\* model.py:320
TruncateSpeakers(sp, so, wo, nw) == Slice(sp, wo, wo + nw)

\* random.randint(0, num_sentences - max_training_sentences), both ends included
SentenceOffsets(num_sentences) == 0..(num_sentences - MaxTrainingSentences)

\* model.py:305-338 for a drawn sentence_offset
TruncateExample(we, ci, tl, sp, gs, ge, cids, so) ==
    LET wo == SumRange(tl, 0, so)
        nw == SumRange(tl, so, so + MaxTrainingSentences)
        gold == TruncateGold(gs, ge, cids, wo, nw)
    IN  [word_emb |-> Slice(we, so, so + MaxTrainingSentences),
         char_index |-> Slice(ci, so, so + MaxTrainingSentences),
         text_len |-> Slice(tl, so, so + MaxTrainingSentences),
         speaker_ids |-> TruncateSpeakers(sp, so, wo, nw),
         gold_starts |-> gold.gold_starts,
         gold_ends |-> gold.gold_ends,
         cluster_ids |-> gold.cluster_ids,
         sentence_offset |-> so,
         word_offset |-> wo]

\* a tensorize_example that truncates whatever the mode
MustTruncateAlways(training, num_sentences) == num_sentences > MaxTrainingSentences

\* model.py:273
MustTruncate(training, num_sentences) == training /\ num_sentences > MaxTrainingSentences

\* model.py:227-271: the tensors of the whole document under the speaker enumeration d
WholeExample(sentences_len, speakers, clusters, d) ==
    LET gm == GoldMentions(clusters)
    IN  [word_emb |-> WordEmb(sentences_len),
         char_index |-> CharIndex(sentences_len),
         text_len |-> sentences_len,
         speaker_ids |-> [t \in DOMAIN speakers |-> d[speakers[t]]],
         gold_starts |-> TensorizeMentions(gm).starts,
         gold_ends |-> TensorizeMentions(gm).ends,
         cluster_ids |-> ClusterIds(clusters, gm),
         sentence_offset |-> 0,
         word_offset |-> 0]

\* model.py:214-277 with the flag start_enqueue_thread passes on
TensorizeExample(training) ==
    /\ pc = "example"
    /\ \E d \in SpeakerDicts(doc_speakers) :
        \E whole \in {WholeExample(doc_text_len, doc_speakers, doc_clusters, d)} :
            \E so \in (IF MustTruncate(training, Size(doc_text_len))
                       THEN SentenceOffsets(Size(doc_text_len)) ELSE {0}) :
                \E out \in {IF MustTruncate(training, Size(doc_text_len))
                            THEN TruncateExample(whole.word_emb, whole.char_index,
                                                 whole.text_len, whole.speaker_ids,
                                                 whole.gold_starts, whole.gold_ends,
                                                 whole.cluster_ids, so)
                            ELSE whole} :
                    /\ speaker_dict' = d
                    /\ word_emb' = out.word_emb
                    /\ char_index' = out.char_index
                    /\ text_len' = out.text_len
                    /\ speaker_ids' = out.speaker_ids
                    /\ gold_starts' = out.gold_starts
                    /\ gold_ends' = out.gold_ends
                    /\ cluster_ids' = out.cluster_ids
                    /\ sentence_offset' = out.sentence_offset
                    /\ word_offset' = out.word_offset
    /\ is_training' = training
    /\ UNCHANGED <<decodeVars, docVars, antecedent_labels, restVars>>

\* model.py:776-777: train_on_batch enqueues the example as a training example
TrainOnBatch ==
    /\ TensorizeExample(TRUE)
    /\ pc' = "train"

\* model.py:782-789: __call__ enqueues the example as an inference example
Call ==
    /\ TensorizeExample(FALSE)
    /\ pc' = "infer"

\* the gold cluster id of mention i: looked up by span, 0 when the span is no gold mention
MentionClusterId(ms, me, gs, ge, cids, i) ==
    IF \E g \in DOMAIN gs : gs[g] = ms[i] /\ ge[g] = me[i]
    THEN cids[CHOOSE g \in DOMAIN gs : gs[g] = ms[i] /\ ge[g] = me[i]]
    ELSE 0

\* tf_ops.get_antecedents, labels: slot 0 is 'no antecedent', slot c + 1 is candidate c;
\* cluster id 0 means 'no gold cluster'
AntecedentLabels(ms, me, gs, ge, cids, max_antecedents) ==
    LET n == Size(ms)
        ants == Antecedents(n, max_antecedents)
        lens == AntecedentsLen(n, max_antecedents)
        id(i) == MentionClusterId(ms, me, gs, ge, cids, i)
        valid(i, c) == c < lens[i] /\ id(i) # 0 /\ id(i) = id(ants[i][c])
    IN  [i \in 0..(n - 1) |->
            [c \in 0..max_antecedents |->
                IF c = 0 THEN ~(\E x \in 0..(max_antecedents - 1) : valid(i, x))
                ELSE valid(i, c - 1)]]

\* a graph that keeps only the first gold span as a mention
RunGraphPruning ==
    /\ pc \in {"train", "infer"}
    /\ \E kept \in {DOMAIN gold_starts \cap {0}} :
          /\ mention_starts' = [k \in kept |-> gold_starts[k]]
          /\ mention_ends' = [k \in kept |-> gold_ends[k]]
          /\ antecedents' = Antecedents(Cardinality(kept), MaxAnt)
          /\ antecedents_len' = AntecedentsLen(Cardinality(kept), MaxAnt)
          /\ antecedent_labels' = AntecedentLabels(mention_starts', mention_ends', gold_starts,
                                                    gold_ends, cluster_ids, MaxAnt)
    /\ pc' = IF pc = "train" THEN "trained" ELSE "inferred"
    /\ UNCHANGED <<pair_scores, mention_scores, antecedent_scores, predicted_antecedents,
                   predicted_clusters, mention_to_predicted, assert_failed, m2p_ids,
                   cluster_lists, first_result, runs, docVars, tensorVars, restVars>>

\* model.py:661-711 with train_on_gold: the mentions are the gold spans and
\* get_antecedents labels their candidates
RunGraph ==
    /\ pc \in {"train", "infer"}
    /\ mention_starts' = gold_starts
    /\ mention_ends' = gold_ends
    /\ antecedents' = Antecedents(Size(gold_starts), MaxAnt)
    /\ antecedents_len' = AntecedentsLen(Size(gold_starts), MaxAnt)
    /\ antecedent_labels' = AntecedentLabels(gold_starts, gold_ends, gold_starts, gold_ends,
                                              cluster_ids, MaxAnt)
    /\ pc' = IF pc = "train" THEN "trained" ELSE "inferred"
    /\ UNCHANGED <<pair_scores, mention_scores, antecedent_scores, predicted_antecedents,
                   predicted_clusters, mention_to_predicted, assert_failed, m2p_ids,
                   cluster_lists, first_result, runs, docVars, tensorVars, restVars>>

\* ---- the examples: sentences of one or two tokens, gold spans inside one sentence,
\* ---- every span in at most one gold cluster
SentenceOf(tl, t) == CHOOSE s \in DOMAIN tl : SumRange(tl, 0, s) <= t /\ t < SumRange(tl, 0, s + 1)
NumWords(tl) == SumRange(tl, 0, Size(tl))
DocSpans(tl) ==
    {sp \in (0..(NumWords(tl) - 1)) \X (0..(NumWords(tl) - 1)) :
        sp[1] <= sp[2] /\ SentenceOf(tl, sp[1]) = SentenceOf(tl, sp[2])}
ClustersOver(S) ==
    UNION {{cl \in Arrays(n, UNION {SortedArrays(k, S) : k \in ClusterSizes}) :
               \A c, d \in 0..(n - 1) :
                   \A x \in DOMAIN cl[c] :
                       \A y \in DOMAIN cl[d] :
                           (c # d \/ x # y) => cl[c][x] # cl[d][y]} : n \in ClusterCounts}

InitTensorize ==
    /\ pc = "example"
    /\ \E n \in 1..MaxSentences :
        /\ doc_text_len \in Arrays(n, SentLens)
        /\ \E by_sentence \in Arrays(n, SpeakerNames) :
              doc_speakers = [t \in 0..(NumWords(doc_text_len) - 1) |->
                                 by_sentence[SentenceOf(doc_text_len, t)]]
        /\ doc_clusters \in ClustersOver(DocSpans(doc_text_len))
    /\ mention_starts = Empty
    /\ mention_ends = Empty
    /\ pair_scores = Empty
    /\ mention_scores = Empty
    /\ antecedents = Empty
    /\ antecedents_len = Empty
    /\ antecedent_scores = Empty
    /\ predicted_antecedents = Empty
    /\ predicted_clusters = Empty
    /\ mention_to_predicted = Empty
    /\ assert_failed = FALSE
    /\ m2p_ids = Empty
    /\ cluster_lists = Empty
    /\ first_result = Empty
    /\ runs = 0
    /\ is_training = FALSE
    /\ word_emb = Empty
    /\ char_index = Empty
    /\ text_len = Empty
    /\ speaker_ids = Empty
    /\ speaker_dict = Empty
    /\ gold_starts = Empty
    /\ gold_ends = Empty
    /\ cluster_ids = Empty
    /\ sentence_offset = 0
    /\ word_offset = 0
    /\ antecedent_labels = Empty
    /\ RestIdle

NextTensorize == TrainOnBatch \/ Call \/ RunGraph

SpecTensorize == InitTensorize /\ [][NextTensorize]_vars

\* ------------------------------------------------------------ tensorize claims
Tensorized == pc \in {"train", "infer"}
GraphRan == pc \in {"trained", "inferred"}
DocSentences == Size(doc_text_len)
DocGold == GoldMentions(doc_clusters)
FirstWord(s) == SumRange(doc_text_len, 0, s)
WasTruncated == Size(text_len) < DocSentences

\* the gold cluster (index into doc_clusters) holding document span sp; -1 if none
GoldClusterOf(sp) ==
    IF \E c \in DOMAIN doc_clusters : sp \in Elems(doc_clusters[c])
    THEN CHOOSE c \in DOMAIN doc_clusters : sp \in Elems(doc_clusters[c])
    ELSE -1
\* the document span of retained mention i
DocSpanOf(i) == <<mention_starts[i] + word_offset, mention_ends[i] + word_offset>>
Coreferent(i, j) == GoldClusterOf(DocSpanOf(i)) >= 0 /\ GoldClusterOf(DocSpanOf(i)) = GoldClusterOf(DocSpanOf(j))

\* C6 (as claimed): candidate slot c of mention i is labelled valid iff the candidate
\* and the mention share a gold cluster, and slot 0 iff no candidate slot is valid.
C6_Original ==
    GraphRan =>
        \A i \in DOMAIN antecedent_labels :
            /\ \A c \in 0..(MaxAnt - 1) :
                  antecedent_labels[i][c + 1] <=>
                      (c < antecedents_len[i] /\ Coreferent(i, antecedents[i][c]))
            /\ antecedent_labels[i][0] <=>
                  ~(\E c \in 0..(MaxAnt - 1) :
                        c < antecedents_len[i] /\ Coreferent(i, antecedents[i][c]))

\* C7 (as claimed): a gold mention of a gold cluster never receives cluster id 0, and
\* two gold mentions receive equal ids iff they are in the same gold cluster.
C7_Original ==
    (Tensorized /\ ~WasTruncated) =>
        /\ \A k \in DOMAIN cluster_ids : cluster_ids[k] # 0
        /\ \A k, l \in DOMAIN cluster_ids :
              (cluster_ids[k] = cluster_ids[l]) <=>
                  (GoldClusterOf(<<gold_starts[k], gold_ends[k]>>)
                       = GoldClusterOf(<<gold_starts[l], gold_ends[l]>>))

\* C8: truncation keeps max_training_sentences consecutive sentences from an offset in
\* 0..N-M; text_len, word_emb and char_index are the rows of that window and
\* speaker_ids are the speakers of exactly the tokens of the window.
C8_TruncateWindow ==
    (pc = "train" /\ DocSentences > MaxTrainingSentences) =>
        \E so \in 0..(DocSentences - MaxTrainingSentences) :
            /\ DOMAIN text_len = 0..(MaxTrainingSentences - 1)
            /\ DOMAIN word_emb = DOMAIN text_len
            /\ DOMAIN char_index = DOMAIN text_len
            /\ \A r \in DOMAIN text_len :
                  /\ text_len[r] = doc_text_len[so + r]
                  /\ word_emb[r] = WordEmb(doc_text_len)[so + r]
                  /\ char_index[r] = CharIndex(doc_text_len)[so + r]
            /\ DOMAIN speaker_ids = 0..(SumRange(text_len, 0, Size(text_len)) - 1)
            /\ \A t \in DOMAIN speaker_ids :
                  speaker_ids[t] = speaker_dict[doc_speakers[FirstWord(so) + t]]

\* C8 witness: a truncated training example whose window starts after the first
\* sentence, in a document where two speakers talk.
C8_Witness ==
    /\ pc = "train"
    /\ DocSentences > MaxTrainingSentences
    /\ sentence_offset > 0
    /\ Cardinality(Elems(doc_speakers)) = 2
    /\ doc_text_len[0] = 2

PassedThrough ==
    /\ text_len = doc_text_len
    /\ word_emb = WordEmb(doc_text_len)
    /\ char_index = CharIndex(doc_text_len)
    /\ speaker_ids = [t \in DOMAIN doc_speakers |-> speaker_dict[doc_speakers[t]]]
    /\ \E gold \in {DocGold} :
          /\ gold_starts = TensorizeMentions(gold).starts
          /\ gold_ends = TensorizeMentions(gold).ends
          /\ Size(cluster_ids) = Size(gold)

MaxSteps == 3

\* a feed queue with room for two examples
QueueCapacityTwo == 1 + 1

\* tf.PaddingFIFOQueue(capacity=1, ...)
QueueCapacity == 1

EmbFormats == {"std_emb", "cached", "elmo"}

LearningRates == {Rat(1, 2), Rat(1, 8)}
DecayRates == {Rat(1, 2), Rat(1, 1), Rat(2, 1)}
DecayFrequencies == {1, 2}
FinalRates == {Rat(1, 4)}

Hypers == [learning_rate : LearningRates, decay_rate : DecayRates,
           decay_frequency : DecayFrequencies, final_rate : FinalRates]

\* an example as far as the feed pipeline looks at it: its key, its total token
\* count and the number of its speaker labels
SessionDocs == [doc_key : {1, 2}, num_words : {2}, num_speakers : {1, 2}]

\* a constructor that accepts every embedding format
FormatSupportedAny(f) == TRUE

\* the constructor accepts the embedding format
FormatSupported(f) == f \in {"std_emb", "cached"}

\* a tensorize_example without its assertion
TensorizableAlways(doc) == TRUE

\* tensorize_example gets past its assertion
Tensorizable(doc) == doc.num_words = doc.num_speakers

\* the tensors tensorize_example returns for an example
TensorizedExample(doc, training) ==
    [doc_key |-> doc.doc_key, num_words |-> doc.num_words, is_training |-> training]

Enqueue(q, x) == Append(q, x)

\* a dequeue that leaves the element in the queue
DequeueNone(q) == q

Dequeue(q) == Tail(q)

InputTensors(q) == Head(q)

RECURSIVE RatPow(_, _)
RatPow(r, n) == IF n = 0 THEN Rat(1, 1) ELSE RatTimes(r, RatPow(r, n - 1))

\* an exponential decay that ignores decay_steps
ExponentialDecayEveryStep(rate, step, decay_steps, decay_rate) ==
    RatTimes(rate, RatPow(decay_rate, step))

\* tf.train.exponential_decay with staircase=True
ExponentialDecay(rate, step, decay_steps, decay_rate) ==
    RatTimes(rate, RatPow(decay_rate, step \div decay_steps))

\* the learning rate the optimizer applies at a global step
LearningRate(h, step) ==
    LET decayed == ExponentialDecay(h.learning_rate, step, h.decay_frequency, h.decay_rate)
    IN  IF RatLess(decayed, h.final_rate) THEN h.final_rate ELSE decayed

NoDecode ==
    /\ mention_starts = Empty
    /\ mention_ends = Empty
    /\ pair_scores = Empty
    /\ mention_scores = Empty
    /\ antecedents = Empty
    /\ antecedents_len = Empty
    /\ antecedent_scores = Empty
    /\ predicted_antecedents = Empty
    /\ predicted_clusters = Empty
    /\ mention_to_predicted = Empty
    /\ assert_failed = FALSE
    /\ m2p_ids = Empty
    /\ cluster_lists = Empty
    /\ first_result = Empty
    /\ runs = 0
    /\ antecedent_labels = Empty

nonSessionVars == <<decodeVars, docVars, tensorVars, antecedent_labels, mentionVars, binVars,
                    extraVars>>

InitSession ==
    /\ pc = "unbuilt"
    /\ emb_format \in EmbFormats
    /\ hyper \in Hypers
    /\ queue_created = FALSE
    /\ graph_built = FALSE
    /\ sess = "none"
    /\ destroyed = FALSE
    /\ queue = <<>>
    /\ global_step = 0
    /\ params = 0
    /\ last_op = "none"
    /\ call_doc = NoDoc
    /\ call_enq = 0
    /\ call_deq = 0
    /\ consumed = NoTensors
    /\ outcome = "none"
    /\ lr_used = NoRate
    /\ NoDecode
    /\ NoExample
    /\ NoMentions
    /\ NoBins
    /\ NoExtra

\* CorefModel.__init__
Construct ==
    /\ pc = "unbuilt"
    /\ last_op' = "__init__"
    /\ IF ~FormatSupported(emb_format)
       THEN /\ pc' = "config_error"
            /\ outcome' = "ConfigError"
            /\ UNCHANGED <<queue_created, graph_built, sess, queue, global_step>>
       ELSE /\ pc' = "idle"
            /\ outcome' = "none"
            /\ queue_created' = TRUE
            /\ queue' = <<>>
            /\ graph_built' = TRUE
            /\ global_step' = 0
            /\ sess' = "open"
    /\ UNCHANGED <<emb_format, hyper, destroyed, params, call_doc, call_enq, call_deq,
                   consumed, lr_used, nonSessionVars>>

\* a method of the model is entered with an example
Invoke(op, doc) ==
    /\ pc = "idle"
    /\ pc' = "called"
    /\ last_op' = op
    /\ call_doc' = doc
    /\ call_enq' = 0
    /\ call_deq' = 0
    /\ outcome' = "none"
    /\ UNCHANGED <<emb_format, hyper, queue_created, graph_built, sess, destroyed, queue,
                   global_step, params, consumed, lr_used, nonSessionVars>>

SessionTrainOnBatch == \E doc \in SessionDocs : global_step < MaxSteps /\ Invoke("train_on_batch", doc)

SessionCall == \E doc \in SessionDocs : Invoke("__call__", doc)

\* start_enqueue_thread: tensorize the example, then run the enqueue op
StartEnqueueThread ==
    /\ pc = "called"
    /\ IF ~Tensorizable(call_doc)
       THEN /\ pc' = "idle"
            /\ outcome' = "AssertionError"
            /\ UNCHANGED <<queue, call_enq>>
       ELSE IF sess # "open"
       THEN /\ pc' = "idle"
            /\ outcome' = "RuntimeError"
            /\ UNCHANGED <<queue, call_enq>>
       ELSE /\ Len(queue) < QueueCapacity
            /\ pc' = "enqueued"
            /\ queue' = Enqueue(queue, TensorizedExample(call_doc, last_op = "train_on_batch"))
            /\ call_enq' = call_enq + 1
            /\ UNCHANGED outcome
    /\ UNCHANGED <<emb_format, hyper, queue_created, graph_built, sess, destroyed,
                   global_step, params, last_op, call_doc, call_deq, consumed, lr_used,
                   nonSessionVars>>

\* a graph run that applies the train op in inference calls too
RunSessionTraining ==
    /\ pc = "enqueued"
    /\ queue # <<>>
    /\ pc' = "idle"
    /\ consumed' = InputTensors(queue)
    /\ queue' = Dequeue(queue)
    /\ call_deq' = call_deq + 1
    /\ outcome' = IF last_op = "train_on_batch" THEN "loss" ELSE "clusters"
    /\ lr_used' = LearningRate(hyper, global_step)
    /\ params' = params + 1
    /\ global_step' = global_step + 1
    /\ UNCHANGED <<emb_format, hyper, queue_created, graph_built, sess, destroyed,
                   last_op, call_doc, call_enq, nonSessionVars>>

\* a graph run that computes on the tensors of the first dequeue ever made
RunSessionCached ==
    /\ pc = "enqueued"
    /\ queue # <<>>
    /\ pc' = "idle"
    /\ consumed' = IF consumed = NoTensors THEN InputTensors(queue) ELSE consumed
    /\ queue' = Dequeue(queue)
    /\ call_deq' = call_deq + 1
    /\ IF last_op = "train_on_batch"
       THEN /\ outcome' = "loss"
            /\ lr_used' = LearningRate(hyper, global_step)
            /\ params' = params + 1
            /\ global_step' = global_step + 1
       ELSE /\ outcome' = "clusters"
            /\ UNCHANGED <<lr_used, params, global_step>>
    /\ UNCHANGED <<emb_format, hyper, queue_created, graph_built, sess, destroyed,
                   last_op, call_doc, call_enq, nonSessionVars>>

\* sess.run of the loss and the train op, or of the predictions: the graph
\* dequeues its input tensors and computes on them
RunSession ==
    /\ pc = "enqueued"
    /\ queue # <<>>
    /\ pc' = "idle"
    /\ consumed' = InputTensors(queue)
    /\ queue' = Dequeue(queue)
    /\ call_deq' = call_deq + 1
    /\ IF last_op = "train_on_batch"
       THEN /\ outcome' = "loss"
            /\ lr_used' = LearningRate(hyper, global_step)
            /\ params' = params + 1
            /\ global_step' = global_step + 1
       ELSE /\ outcome' = "clusters"
            /\ UNCHANGED <<lr_used, params, global_step>>
    /\ UNCHANGED <<emb_format, hyper, queue_created, graph_built, sess, destroyed,
                   last_op, call_doc, call_enq, nonSessionVars>>

\* a destroy that leaves the session open
DestroyNoClose ==
    /\ pc = "idle"
    /\ destroyed' = TRUE
    /\ last_op' = "destroy"
    /\ outcome' = "none"
    /\ UNCHANGED <<pc, emb_format, hyper, queue_created, graph_built, sess, queue, global_step,
                   params, call_doc, call_enq, call_deq, consumed, lr_used, nonSessionVars>>

\* CorefModel.destroy
Destroy ==
    /\ pc = "idle"
    /\ sess' = "closed"
    /\ destroyed' = TRUE
    /\ last_op' = "destroy"
    /\ outcome' = "none"
    /\ UNCHANGED <<pc, emb_format, hyper, queue_created, graph_built, queue, global_step,
                   params, call_doc, call_enq, call_deq, consumed, lr_used, nonSessionVars>>

NextSession ==
    \/ Construct
    \/ SessionTrainOnBatch
    \/ SessionCall
    \/ StartEnqueueThread
    \/ RunSession
    \/ Destroy

SpecSession == InitSession /\ [][NextSession]_vars

\* ---------------------------------------------------------------------------
\* Properties of construction, calls and destroy
\* ---------------------------------------------------------------------------

modelState == <<queue, global_step, params, sess, destroyed, consumed, lr_used, hyper>>

Malformed(doc) == doc.num_words # doc.num_speakers

\* C12: a call whose document has a token count different from the number of
\* speaker labels fails with an assertion error before anything is enqueued:
\* the queue stays empty, and the global step, the parameters and the rest of
\* the model are as they were before the call was made.
C12_AssertBeforeEnqueue ==
    [][/\ (pc = "idle" /\ pc' = "called") => UNCHANGED modelState
       /\ (pc = "called" /\ Malformed(call_doc)) =>
              /\ pc' = "idle"
              /\ outcome' = "AssertionError"
              /\ call_enq' = 0
              /\ queue' = <<>>
              /\ UNCHANGED modelState]_vars

\* C12 witness: after a training step, a call on a malformed document has
\* failed on the open session.
C12_Witness ==
    /\ pc = "idle"
    /\ outcome = "AssertionError"
    /\ Malformed(call_doc)
    /\ sess = "open"
    /\ global_step > 0

\* C13: once destroy has been called the model stays destroyed with a closed
\* session, and no later call returns a loss or a clustering.
C13_DestroyTerminal ==
    [][destroyed =>
          /\ destroyed'
          /\ sess' = "closed"
          /\ outcome' \notin {"loss", "clusters"}
          /\ UNCHANGED <<global_step, params, consumed>>]_vars

\* C13 witness: a call on a well-formed document was rejected after destroy.
C13_Witness ==
    /\ destroyed
    /\ pc = "idle"
    /\ last_op \in {"train_on_batch", "__call__"}
    /\ ~Malformed(call_doc)
    /\ outcome = "RuntimeError"

Completed == pc = "idle" /\ outcome \in {"loss", "clusters"}

\* C14: the feed queue never holds more than one example; it is empty whenever
\* no call is in progress; a call that is about to enqueue finds room in the
\* queue, so its enqueue does not block; a completed call has enqueued exactly
\* one example and dequeued exactly one.
C14_OneInFlight ==
    /\ Len(queue) <= 1
    /\ (pc \in {"unbuilt", "config_error", "idle", "called"} => queue = <<>>)
    /\ (pc = "called" => Len(queue) < QueueCapacity)
    /\ (pc = "enqueued" => Len(queue) = 1 /\ call_enq = 1 /\ call_deq = 0)
    /\ (Completed => call_enq = 1 /\ call_deq = 1)

\* C14 witness: a second call in a row (an inference after a training step) has
\* completed.
C14_Witness ==
    /\ Completed
    /\ last_op = "__call__"
    /\ global_step > 0
    /\ consumed.doc_key = 2

\* C15: the graph run of a completed call has computed on the tensors made from
\* that call's own document and mode, which is what passing the tensors
\* directly would hand it.
C15_OwnTensors ==
    Completed =>
        /\ consumed.doc_key = call_doc.doc_key
        /\ consumed.num_words = call_doc.num_words
        /\ consumed.is_training = (last_op = "train_on_batch")
        /\ (last_op = "train_on_batch" <=> outcome = "loss")

\* C15 witness: an inference call on document 2 has completed after a training
\* step on document 1.
C15_Witness ==
    /\ Completed
    /\ last_op = "__call__"
    /\ call_doc.doc_key = 2
    /\ params = 1
    /\ global_step = 1

\* step s lies in block e of the schedule: e = floor(s / decay_frequency)
InBlock(s, e) == e * hyper.decay_frequency <= s /\ s < (e + 1) * hyper.decay_frequency

\* r is learning_rate * decay_rate^floor(s / decay_frequency) if that value is
\* at least final_rate, and final_rate otherwise
ScheduledRate(s, r) ==
    \E e \in 0..s :
        /\ InBlock(s, e)
        /\ \E v \in {RatTimes(hyper.learning_rate, RatPow(hyper.decay_rate, e))} :
              IF RatLeq(hyper.final_rate, v) THEN RatEq(r, v) ELSE RatEq(r, hyper.final_rate)

\* C20: a training step made at global step s applies the rate
\* learning_rate * decay_rate^floor(s / decay_frequency), or final_rate when
\* that value is below final_rate; the rate is at least final_rate, equals the
\* rate of the step before when both steps lie in one block of decay_frequency
\* steps, and is not above it when 0 < decay_rate <= 1 and
\* learning_rate >= final_rate.
C20_LearningRateSchedule ==
    [][global_step' = global_step + 1 =>
          /\ ScheduledRate(global_step, lr_used')
          /\ RatLeq(hyper.final_rate, lr_used')
          /\ global_step > 0 =>
                /\ (\E e \in 0..global_step : InBlock(global_step - 1, e) /\ InBlock(global_step, e))
                       => RatEq(lr_used', lr_used)
                /\ (/\ RatLess(Rat(0, 1), hyper.decay_rate)
                    /\ RatLeq(hyper.decay_rate, Rat(1, 1))
                    /\ RatLeq(hyper.final_rate, hyper.learning_rate))
                       => RatLeq(lr_used', lr_used)]_vars

\* C20 witness: with decay_frequency 1 the third training step has run at the
\* floor rate, the decayed value having fallen below final_rate.
C20_Witness ==
    /\ global_step = 3
    /\ hyper.decay_frequency = 1
    /\ hyper.decay_rate = Rat(1, 2)
    /\ hyper.learning_rate = Rat(1, 2)
    /\ lr_used = hyper.final_rate

\* ---------------------------------------------------------------------------
\* Properties of the mention list
\* ---------------------------------------------------------------------------

\* the spans of the gold clusters of the document
DocGoldSpans == UNION {Elems(doc_clusters[c]) : c \in DOMAIN doc_clusters}

\* the gold spans inside the window of the tensorized example, counted from the
\* first word of the window
RetainedGoldSpans ==
    {<<sp[1] - word_offset, sp[2] - word_offset>> :
        sp \in {g \in DocGoldSpans :
                   g[1] >= word_offset /\ g[2] < word_offset + NumWords(text_len)}}

StrictlySorted(starts, ends) ==
    \A i, j \in DOMAIN starts : i < j => SpanLess(<<starts[i], ends[i]>>, <<starts[j], ends[j]>>)

MentionWidths == {1, 2}
MentionRatios == {Rat(2, 5), Rat(1, 2), Rat(1, 1)}

RECURSIVE MaxOf(_, _)
MaxOf(f, k) == IF k >= Size(f) THEN 0 ELSE IF f[k] > MaxOf(f, k + 1) THEN f[k] ELSE MaxOf(f, k + 1)

\* tf.sequence_mask(text_len, maxlen) reshaped to one row: the kept positions
TextLenMask(tl, maxlen) ==
    {p \in 0..(Size(tl) * maxlen - 1) : p % maxlen < tl[p \div maxlen]}

\* a flattening that keeps the padding positions
FlattenedSentenceIndicesPadded(tl) ==
    LET maxlen == MaxOf(tl, 0)
    IN  [p \in 0..(Size(tl) * maxlen - 1) |-> p \div maxlen]

\* model.py:672-674: row s of sentence_indices holds s in every column; the rows
\* are laid end to end and the padding positions are masked out
FlattenedSentenceIndices(tl) ==
    LET maxlen == MaxOf(tl, 0)
        tiled == [p \in 0..(Size(tl) * maxlen - 1) |-> p \div maxlen]
    IN  Masked(tiled, TextLenMask(tl, maxlen))

\* tf_ops.spans: every span of at most max_width tokens whose first and last
\* token carry the same sentence index, in (start, end) order
Spans(sentence_indices, max_width) ==
    LET all == {sp \in (DOMAIN sentence_indices) \X (DOMAIN sentence_indices) :
                   /\ sp[1] <= sp[2]
                   /\ sp[2] - sp[1] + 1 <= max_width
                   /\ sentence_indices[sp[1]] = sentence_indices[sp[2]]}
        rank(sp) == Cardinality({o \in all : SpanLess(o, sp)})
    IN  [k \in 0..(Cardinality(all) - 1) |-> CHOOSE sp \in all : rank(sp) = k]

\* k = floor(num_words * mention_ratio)
MentionBudget(num_words, ratio) == (num_words * ratio[1]) \div ratio[2]

\* tf_ops.extract_mentions: the indices of the k best-scored candidates in
\* document order; the scores being free, any k candidates
ExtractMentions(num_candidates, k) ==
    {Masked([c \in 0..(num_candidates - 1) |-> c], keep) :
        keep \in {S \in SUBSET (0..(num_candidates - 1)) : Cardinality(S) = Min(k, num_candidates)}}

Gather(f, indices) == [k \in DOMAIN indices |-> f[indices[k]]]

InitMentions ==
    /\ pc = "tensors"
    /\ \E n \in 1..MaxSentences : text_len \in Arrays(n, SentLens)
    /\ max_mention_width \in MentionWidths
    /\ mention_ratio \in MentionRatios
    /\ candidate_starts = Empty
    /\ candidate_ends = Empty
    /\ NoDecode
    /\ doc_text_len = Empty
    /\ doc_speakers = Empty
    /\ doc_clusters = Empty
    /\ is_training = FALSE
    /\ word_emb = Empty
    /\ char_index = Empty
    /\ speaker_ids = Empty
    /\ speaker_dict = Empty
    /\ gold_starts = Empty
    /\ gold_ends = Empty
    /\ cluster_ids = Empty
    /\ sentence_offset = 0
    /\ word_offset = 0
    /\ NoSession
    /\ NoBins
    /\ NoExtra

\* model.py:672-711: enumerate the candidate spans, keep k of them as mentions,
\* build the antecedent lists of the mentions
PredictMentions ==
    /\ pc = "tensors"
    /\ pc' = "mentions"
    /\ \E cands \in {Spans(FlattenedSentenceIndices(text_len), max_mention_width)} :
       \E indices \in ExtractMentions(Size(cands), MentionBudget(NumWords(text_len), mention_ratio)) :
          /\ candidate_starts' = TensorizeMentions(cands).starts
          /\ candidate_ends' = TensorizeMentions(cands).ends
          /\ mention_starts' = Gather(TensorizeMentions(cands).starts, indices)
          /\ mention_ends' = Gather(TensorizeMentions(cands).ends, indices)
          /\ antecedents' = Antecedents(Size(indices), MaxAnt)
          /\ antecedents_len' = AntecedentsLen(Size(indices), MaxAnt)
    /\ UNCHANGED <<pair_scores, mention_scores, antecedent_scores, predicted_antecedents,
                   predicted_clusters, mention_to_predicted, assert_failed, m2p_ids,
                   cluster_lists, first_result, runs, docVars, tensorVars, antecedent_labels,
                   sessionVars, max_mention_width, mention_ratio, binVars, extraVars>>

NextMentions == PredictMentions

SpecMentions == InitMentions /\ [][NextMentions]_vars

MentionsPredicted == pc = "mentions"

CandidateSpans == {<<candidate_starts[c], candidate_ends[c]>> : c \in DOMAIN candidate_starts}

\* the spans of at most max_mention_width tokens inside one sentence of the example
SentenceSpans ==
    {sp \in (0..(NumWords(text_len) - 1)) \X (0..(NumWords(text_len) - 1)) :
        /\ sp[1] <= sp[2]
        /\ sp[2] - sp[1] + 1 <= max_mention_width
        /\ SentenceOf(text_len, sp[1]) = SentenceOf(text_len, sp[2])}

\* C17: with mention detection on, the candidate spans are exactly the spans
\* (start, end) with start <= end, at most max_mention_width tokens and both
\* ends in one sentence, each once; every predicted mention is such a span, so
\* it lies inside one sentence and inside the token range of the document.
C17_SpansWithinSentence ==
    MentionsPredicted =>
        /\ CandidateSpans = SentenceSpans
        /\ Size(candidate_starts) = Cardinality(SentenceSpans)
        /\ DOMAIN mention_starts = DOMAIN mention_ends
        /\ \A i \in DOMAIN mention_starts :
              /\ 0 <= mention_starts[i]
              /\ mention_starts[i] <= mention_ends[i]
              /\ mention_ends[i] < NumWords(text_len)
              /\ SentenceOf(text_len, mention_starts[i]) = SentenceOf(text_len, mention_ends[i])
              /\ <<mention_starts[i], mention_ends[i]>> \in SentenceSpans

\* C17 witness: a one-token sentence followed by a two-token sentence, width 2:
\* the two-token span of the second sentence was kept as a mention.
C17_Witness ==
    /\ MentionsPredicted
    /\ Size(text_len) = 2
    /\ text_len[0] = 1
    /\ text_len[1] = 2
    /\ max_mention_width = 2
    /\ \E i \in DOMAIN mention_starts : mention_starts[i] = 1 /\ mention_ends[i] = 2

\* the candidate list of mention i: the filled slots of its row
CandidateList(i) == {antecedents[i][c] : c \in 0..(antecedents_len[i] - 1)}

\* C18: the candidate list of the mention with index i holds the
\* min(i, max_antecedents) mentions right before i, each once and all with an
\* index below i; antecedents_len[i] is that count and is at most
\* max_antecedents; the first mention has no candidate.
C18_NearestPreceding ==
    MentionsPredicted =>
        /\ DOMAIN antecedents = DOMAIN mention_starts
        /\ DOMAIN antecedents_len = DOMAIN mention_starts
        /\ \A i \in DOMAIN mention_starts :
              /\ antecedents_len[i] = Min(i, MaxAnt)
              /\ antecedents_len[i] <= MaxAnt
              /\ DOMAIN antecedents[i] = 0..(MaxAnt - 1)
              /\ CandidateList(i) = (i - Min(i, MaxAnt))..(i - 1)
              /\ \A c, d \in 0..(antecedents_len[i] - 1) :
                    /\ antecedents[i][c] < i
                    /\ (c # d => antecedents[i][c] # antecedents[i][d])
        /\ (0 \in DOMAIN mention_starts => CandidateList(0) = {})

\* C18 witness: a mention with more preceding mentions than max_antecedents.
C18_Witness ==
    /\ MentionsPredicted
    /\ \E i \in DOMAIN mention_starts :
          /\ i > MaxAnt
          /\ 0 \notin CandidateList(i)
          /\ i - 1 \in CandidateList(i)

\* ---------------------------------------------------------------------------
\* The distance feature of get_antecedent_scores
\* ---------------------------------------------------------------------------

MaxBinMentions == 66

\* rows of the mention_distance_emb table
DistanceEmbRows == 10

\* a distance counted from the antecedent to the mention
MentionDistanceReversed(target, antecedent) == antecedent - target

\* model.py:460: target index minus antecedent index
MentionDistance(target, antecedent) == target - antecedent

\* tf_ops.distance_bins: distances up to 4 have a bucket each, then 5-7, 8-15,
\* 16-31, 32-63 and 64 or more
DistanceBins(d) ==
    IF d <= 4 THEN d
    ELSE IF d <= 7 THEN 5
    ELSE IF d <= 15 THEN 6
    ELSE IF d <= 31 THEN 7
    ELSE IF d <= 63 THEN 8
    ELSE 9

InitBins ==
    /\ pc = "antecedents"
    /\ \E n \in 1..MaxBinMentions :
       \E max_antecedents \in {MaxAnt, MaxBinMentions} :
          /\ antecedents = Antecedents(n, max_antecedents)
          /\ antecedents_len = AntecedentsLen(n, max_antecedents)
    /\ mention_distance = Empty
    /\ mention_distance_bins = Empty
    /\ mention_starts = Empty
    /\ mention_ends = Empty
    /\ pair_scores = Empty
    /\ mention_scores = Empty
    /\ antecedent_scores = Empty
    /\ predicted_antecedents = Empty
    /\ predicted_clusters = Empty
    /\ mention_to_predicted = Empty
    /\ assert_failed = FALSE
    /\ m2p_ids = Empty
    /\ cluster_lists = Empty
    /\ first_result = Empty
    /\ runs = 0
    /\ NoExample
    /\ NoSession
    /\ NoMentions
    /\ NoExtra

\* model.py:458-466: the distance of every (mention, slot) pair and its row in
\* the distance embedding table
DistanceFeature ==
    /\ pc = "antecedents"
    /\ pc' = "binned"
    /\ mention_distance' =
          [i \in DOMAIN antecedents |->
              [c \in DOMAIN antecedents[i] |-> MentionDistance(i, antecedents[i][c])]]
    /\ mention_distance_bins' =
          [i \in DOMAIN antecedents |->
              [c \in DOMAIN antecedents[i] |->
                  DistanceBins(MentionDistance(i, antecedents[i][c]))]]
    /\ UNCHANGED <<decodeVars, docVars, tensorVars, antecedent_labels, sessionVars, mentionVars,
                   extraVars>>

NextBins == DistanceFeature

SpecBins == InitBins /\ [][NextBins]_vars

Binned == pc = "binned"

RECURSIVE PowerOfTwo(_)
PowerOfTwo(n) == IF n <= 0 THEN 1 ELSE 2 * PowerOfTwo(n - 1)

LastRow == Size(antecedents) - 1

\* C19: for every (mention, slot) pair, padding slots included, the distance
\* i - antecedents[i][slot] is at least 0 and its bucket is a row 0..9 of the
\* distance table; a larger distance never has a smaller bucket; a distance up
\* to 4 is its own bucket; from 5 on, bucket b holds the distances from
\* 2^(b-3) (from 5 for b = 5) up to 2^(b-2) - 1, and bucket 9 all from 64 on.
C19_DistanceBuckets ==
    Binned =>
        \A i \in DOMAIN antecedents :
            \A c \in DOMAIN antecedents[i] :
                \E d \in {mention_distance[i][c]} :
                \E b \in {mention_distance_bins[i][c]} :
                    /\ d = i - antecedents[i][c]
                    /\ d >= 0
                    /\ b \in 0..(DistanceEmbRows - 1)
                    /\ (d <= 4 => b = d)
                    /\ (d >= 5 => /\ b >= 5
                                  /\ PowerOfTwo(b - 3) <= d
                                  /\ (b < 9 => d < PowerOfTwo(b - 2)))
                    /\ \A x \in DOMAIN antecedents[LastRow] :
                          /\ d <= mention_distance[LastRow][x] => b <= mention_distance_bins[LastRow][x]
                          /\ d >= mention_distance[LastRow][x] => b >= mention_distance_bins[LastRow][x]

\* C19 witness: one row holds a distance of 64 in the last bucket, a distance of
\* 5 and one of 7 in the same bucket, and the first mention has a padding slot
\* at distance 0.
C19_Witness ==
    /\ Binned
    /\ antecedents_len[0] = 0
    /\ mention_distance[0][0] = 0
    /\ mention_distance_bins[0][0] = 0
    /\ \E i \in DOMAIN antecedents :
       \E c, x, y \in DOMAIN antecedents[i] :
          /\ mention_distance[i][c] = 64
          /\ mention_distance_bins[i][c] = 9
          /\ mention_distance[i][x] = 5
          /\ mention_distance[i][y] = 7
          /\ mention_distance_bins[i][x] = mention_distance_bins[i][y]

\* ---------------------------------------------------------------------------
\* ChitchatQASelector (core/agent_v2/skill_selector.py)
\* ---------------------------------------------------------------------------

MaxNames == 2
MaxDialogs == 2

ServiceNames == {"chitchat", "hellobot", "selector"}
PredictedNameVals == {"chitchat", "odqa", "faq"}

\* the state of the coreference model
baseVars == <<decodeVars, docVars, tensorVars, antecedent_labels, sessionVars, mentionVars, binVars>>

NoBase == NoDecode /\ NoExample /\ NoSession /\ NoMentions /\ NoBins

SeqsUpTo(S, n) == UNION {[1..k -> S] : k \in 0..n}

Range(q) == {q[k] : k \in DOMAIN q}

SKILL_NAMES_MAP ==
    [selector_name \in {"chitchat", "odqa"} |->
        IF selector_name = "chitchat" THEN <<"chitchat", "hellobot">> ELSE <<"odqa">>]

\* a map entry taken over as it is
KeepAllNames(agent_names, names) == agent_names

\* list(filter(lambda x: x not in self.rest_caller.names, agent_names))
FilterOwnNames(agent_names, names) ==
    LET notOwn(x) == x \notin Range(names)
    IN  SelectSeq(agent_names, notOwn)

InitSelector ==
    /\ pc = "selector_unbuilt"
    /\ rest_caller_names \in SeqsUpTo(ServiceNames, MaxNames)
    /\ skill_names_map = Empty
    /\ predicted_names = <<>>
    /\ skill_names = <<>>
    /\ selector_error = "none"
    /\ NoBase
    /\ NoEmb
    /\ NoThreads
    /\ NoRanker

\* ChitchatQASelector.__init__
SelectorInit ==
    /\ pc = "selector_unbuilt"
    /\ pc' = "selector_ready"
    /\ skill_names_map' =
          [selector_name \in DOMAIN SKILL_NAMES_MAP |->
              FilterOwnNames(SKILL_NAMES_MAP[selector_name], rest_caller_names)]
    /\ UNCHANGED <<rest_caller_names, predicted_names, skill_names, selector_error,
                   baseVars, embVars, threadVars, rankerVars>>

\* ChitchatQASelector.__call__ on a REST response that names one selector per
\* dialog under the key rest_caller.names[0]
SelectorCall ==
    /\ pc \in {"selector_ready", "selected"}
    /\ pc' = "selected"
    /\ \E response \in SeqsUpTo(PredictedNameVals, MaxDialogs) :
          /\ predicted_names' = response
          /\ IF response # <<>> /\ rest_caller_names = <<>>
             THEN selector_error' = "IndexError" /\ skill_names' = <<>>
             ELSE IF \E k \in DOMAIN response : response[k] \notin DOMAIN skill_names_map
             THEN selector_error' = "KeyError" /\ skill_names' = <<>>
             ELSE /\ selector_error' = "none"
                  /\ skill_names' = [k \in DOMAIN response |-> skill_names_map[response[k]]]
    /\ UNCHANGED <<rest_caller_names, skill_names_map, baseVars, embVars, threadVars, rankerVars>>

NextSelector ==
    \/ SelectorInit
    \/ SelectorCall

SpecSelector == InitSelector /\ [][NextSelector]_vars

Selected == pc = "selected" /\ selector_error = "none"

\* q lists members of r in the order r has them
SubSequence(q, r) ==
    \A a, b \in DOMAIN q :
        a < b => \E x, y \in DOMAIN r : x < y /\ r[x] = q[a] /\ r[y] = q[b]

\* C21: a call that returns gives one list per dialog of the response, in the
\* order of the response; the list of a dialog holds the names SKILL_NAMES_MAP
\* lists for its predicted selector name, in that order, without those that
\* are in rest_caller.names; so no returned name is a name of the selector's
\* own service and every returned name occurs in SKILL_NAMES_MAP.
C21_SelectorNames ==
    Selected =>
        /\ Len(skill_names) = Len(predicted_names)
        /\ \A k \in DOMAIN skill_names :
              /\ predicted_names[k] \in DOMAIN SKILL_NAMES_MAP
              /\ Range(skill_names[k]) =
                     Range(SKILL_NAMES_MAP[predicted_names[k]]) \ Range(rest_caller_names)
              /\ SubSequence(skill_names[k], SKILL_NAMES_MAP[predicted_names[k]])
              /\ Len(skill_names[k]) = Cardinality(Range(skill_names[k]))
              /\ Range(skill_names[k]) \cap Range(rest_caller_names) = {}
              /\ Range(skill_names[k]) \subseteq
                     UNION {Range(SKILL_NAMES_MAP[n]) : n \in DOMAIN SKILL_NAMES_MAP}

\* C21 witness: the service is called "chitchat"; for the dialogs predicted
\* chitchat and odqa the call returned [hellobot] and [odqa].
C21_Witness ==
    /\ Selected
    /\ rest_caller_names = <<"chitchat">>
    /\ predicted_names = <<"chitchat", "odqa">>
    /\ skill_names = << <<"hellobot">>, <<"odqa">> >>

\* ---------------------------------------------------------------------------
\* get_mention_emb on the candidate spans or on the gold spans
\* ---------------------------------------------------------------------------

\* the gold span lists of an example: spans inside one sentence, each once, sorted
GoldSpanLists(tl) ==
    {SortSpans(Masked([k \in 0..(Cardinality(DocSpans(tl)) - 1) |->
                          CHOOSE sp \in DocSpans(tl) :
                              Cardinality({o \in DocSpans(tl) : SpanLess(o, sp)}) = k],
                      keep)) :
        keep \in SUBSET (0..(Cardinality(DocSpans(tl)) - 1))}

InitEmb ==
    /\ pc = "emb_input"
    /\ train_on_gold \in BOOLEAN
    /\ max_mention_width \in MentionWidths
    /\ \E n \in 1..MaxSentences : text_len \in Arrays(n, SentLens)
    /\ \E gold \in GoldSpanLists(text_len) :
          /\ gold_starts = TensorizeMentions(gold).starts
          /\ gold_ends = TensorizeMentions(gold).ends
    /\ mention_width = Empty
    /\ mention_width_index = Empty
    /\ mention_indices = Empty
    /\ mention_mask = Empty
    /\ mention_ratio = NoRate
    /\ candidate_starts = Empty
    /\ candidate_ends = Empty
    /\ NoDecode
    /\ doc_text_len = Empty
    /\ doc_speakers = Empty
    /\ doc_clusters = Empty
    /\ is_training = FALSE
    /\ word_emb = Empty
    /\ char_index = Empty
    /\ speaker_ids = Empty
    /\ speaker_dict = Empty
    /\ cluster_ids = Empty
    /\ sentence_offset = 0
    /\ word_offset = 0
    /\ NoSession
    /\ NoBins
    /\ NoSelector
    /\ NoThreads
    /\ NoRanker

\* model.py:661-678 and 340-390: get_mention_emb receives the gold spans
\* (train_on_gold) or the enumerated candidate spans
GetMentionEmb ==
    /\ pc = "emb_input"
    /\ pc' = "embedded"
    /\ \E cands \in {Spans(FlattenedSentenceIndices(text_len), max_mention_width)} :
       \E starts \in {IF train_on_gold THEN gold_starts ELSE TensorizeMentions(cands).starts} :
       \E ends \in {IF train_on_gold THEN gold_ends ELSE TensorizeMentions(cands).ends} :
          /\ mention_starts' = starts
          /\ mention_ends' = ends
          /\ candidate_starts' = IF train_on_gold THEN Empty ELSE starts
          /\ candidate_ends' = IF train_on_gold THEN Empty ELSE ends
          /\ mention_width' = [i \in DOMAIN starts |-> 1 + ends[i] - starts[i]]
          /\ mention_width_index' = [i \in DOMAIN starts |-> (1 + ends[i] - starts[i]) - 1]
          /\ mention_indices' =
                [i \in DOMAIN starts |->
                    [j \in 0..(max_mention_width - 1) |->
                        Min(NumWords(text_len) - 1, j + starts[i])]]
          /\ mention_mask' =
                [i \in DOMAIN starts |->
                    [j \in 0..(max_mention_width - 1) |-> j < 1 + ends[i] - starts[i]]]
    /\ UNCHANGED <<mention_scores, pair_scores, antecedents, antecedents_len, antecedent_scores,
                   predicted_antecedents, predicted_clusters, mention_to_predicted,
                   assert_failed, m2p_ids, cluster_lists, first_result, runs, docVars,
                   tensorVars, antecedent_labels, sessionVars, max_mention_width, mention_ratio,
                   binVars, selectorVars, train_on_gold, threadVars, rankerVars>>

NextEmb == GetMentionEmb

SpecEmb == InitEmb /\ [][NextEmb]_vars

Embedded == pc = "embedded"

\* C22: every mention passed to get_mention_emb, enumerated or gold, has a
\* width between 1 and max_mention_width, so its width index is a row of the
\* width table and the head-attention mask keeps every token of the span.
C22_Original ==
    Embedded =>
        \A i \in DOMAIN mention_starts :
            /\ 1 <= mention_width[i]
            /\ mention_width[i] <= max_mention_width
            /\ mention_width_index[i] \in 0..(max_mention_width - 1)
            /\ \A t \in mention_starts[i]..mention_ends[i] :
                  \E j \in DOMAIN mention_mask[i] :
                      mention_mask[i][j] /\ mention_indices[i][j] = t

\* ---------------------------------------------------------------------------
\* Two threads calling one constructed model, one call each
\* ---------------------------------------------------------------------------

Threads == {1, 2}

Ops == {"train_on_batch", "__call__"}

\* the model after a successful construction; thread t is about to call with a
\* document of its own (doc_key t)
InitThreads ==
    /\ pc = "idle"
    /\ emb_format \in {"std_emb", "cached"}
    /\ hyper = [learning_rate |-> Rat(1, 2), decay_rate |-> Rat(1, 2), decay_frequency |-> 1,
                final_rate |-> Rat(1, 4)]
    /\ queue_created = TRUE
    /\ graph_built = TRUE
    /\ sess = "open"
    /\ destroyed = FALSE
    /\ queue = <<>>
    /\ global_step = 0
    /\ params = 0
    /\ last_op = "__init__"
    /\ call_doc = NoDoc
    /\ call_enq = 0
    /\ call_deq = 0
    /\ consumed = NoTensors
    /\ outcome = "none"
    /\ lr_used = NoRate
    /\ thread_pc = [t \in Threads |-> "called"]
    /\ thread_op \in [Threads -> Ops]
    /\ thread_doc \in {f \in [Threads -> SessionDocs] : \A t \in Threads : f[t].doc_key = t}
    /\ thread_consumed = [t \in Threads |-> NoTensors]
    /\ thread_outcome = [t \in Threads |-> "none"]
    /\ NoDecode
    /\ NoExample
    /\ NoMentions
    /\ NoBins
    /\ NoSelector
    /\ NoEmb
    /\ NoRanker

nonThreadVars == <<decodeVars, docVars, tensorVars, antecedent_labels, mentionVars, binVars,
                   selectorVars, embVars, rankerVars>>

\* start_enqueue_thread in thread t: tensorize, then run the enqueue op, which
\* waits while the queue is full
ThreadEnqueue(t) ==
    /\ thread_pc[t] = "called"
    /\ IF ~Tensorizable(thread_doc[t])
       THEN /\ thread_pc' = [thread_pc EXCEPT ![t] = "done"]
            /\ thread_outcome' = [thread_outcome EXCEPT ![t] = "AssertionError"]
            /\ UNCHANGED queue
       ELSE /\ Len(queue) < QueueCapacity
            /\ thread_pc' = [thread_pc EXCEPT ![t] = "enqueued"]
            /\ queue' = Enqueue(queue, TensorizedExample(thread_doc[t],
                                                         thread_op[t] = "train_on_batch"))
            /\ UNCHANGED thread_outcome
    /\ UNCHANGED <<pc, emb_format, hyper, queue_created, graph_built, sess, destroyed,
                   global_step, params, last_op, call_doc, call_enq, call_deq, consumed,
                   outcome, lr_used, thread_op, thread_doc, thread_consumed, nonThreadVars>>

\* the sess.run of thread t that follows its enqueue: the graph dequeues and
\* computes; a training run applies the optimizer update
ThreadRun(t) ==
    /\ thread_pc[t] = "enqueued"
    /\ queue # <<>>
    /\ thread_pc' = [thread_pc EXCEPT ![t] = "done"]
    /\ thread_consumed' = [thread_consumed EXCEPT ![t] = InputTensors(queue)]
    /\ queue' = Dequeue(queue)
    /\ IF thread_op[t] = "train_on_batch"
       THEN /\ thread_outcome' = [thread_outcome EXCEPT ![t] = "loss"]
            /\ lr_used' = LearningRate(hyper, global_step)
            /\ params' = params + 1
            /\ global_step' = global_step + 1
       ELSE /\ thread_outcome' = [thread_outcome EXCEPT ![t] = "clusters"]
            /\ UNCHANGED <<lr_used, params, global_step>>
    /\ UNCHANGED <<pc, emb_format, hyper, queue_created, graph_built, sess, destroyed,
                   last_op, call_doc, call_enq, call_deq, consumed, outcome, thread_op,
                   thread_doc, nonThreadVars>>

ThreadStep(t) == ThreadEnqueue(t) \/ ThreadRun(t)

NextThreads == \E t \in Threads : ThreadStep(t)

\* every thread keeps running
FairThreads == \A t \in Threads : WF_vars(ThreadStep(t))

SpecThreads == InitThreads /\ [][NextThreads]_vars /\ FairThreads

AllThreadsDone == \A t \in Threads : thread_pc[t] = "done"

ThreadSucceeded(t) == thread_pc[t] = "done" /\ thread_outcome[t] \in {"loss", "clusters"}

\* the examples enqueued so far are those dequeued plus those in the queue, and
\* a graph run computes on the example its own thread enqueued
C23_Safe ==
    /\ Len(queue) = Cardinality({t \in Threads : thread_pc[t] = "enqueued"})
    /\ Len(queue) <= 1
    /\ \A t \in Threads :
          /\ thread_pc[t] = "enqueued" =>
                Head(queue).doc_key = thread_doc[t].doc_key
          /\ ThreadSucceeded(t) =>
                /\ thread_consumed[t].doc_key = thread_doc[t].doc_key
                /\ thread_consumed[t].is_training = (thread_op[t] = "train_on_batch")
          /\ (thread_pc[t] = "done" /\ ~ThreadSucceeded(t)) =>
                thread_consumed[t] = NoTensors /\ ~Tensorizable(thread_doc[t])
    /\ \A t, u \in Threads :
          (t # u /\ ThreadSucceeded(t) /\ ThreadSucceeded(u)) =>
              thread_consumed[t].doc_key # thread_consumed[u].doc_key
    /\ (AllThreadsDone => queue = <<>>)

\* C23: with two threads calling at the same time, in every interleaving each
\* graph run dequeues the example its own thread enqueued, no example is lost
\* or used twice, and both calls come to an end.
C23_Serialised == []C23_Safe /\ <>AllThreadsDone

\* C23 witness: both calls have completed, a training call and an inference
\* call, each on its own document.
C23_Witness ==
    /\ AllThreadsDone
    /\ thread_outcome[1] = "loss"
    /\ thread_outcome[2] = "clusters"
    /\ thread_consumed[1].doc_key = 1
    /\ thread_consumed[2].doc_key = 2
    /\ global_step = 1

\* a train_on_batch call returns
TrainingReturns == pc = "enqueued" /\ last_op = "train_on_batch" /\ pc' = "idle"

\* C24: global_step and the number of optimizer updates start at 0, a
\* train_on_batch call that returns raises each of them by exactly one, and
\* every other step, a returning __call__ among them, leaves the step and the
\* parameters as they are; so global_step counts the train_on_batch calls made.
C24_StepCountsTraining ==
    /\ global_step = 0
    /\ params = 0
    /\ [][/\ TrainingReturns =>
                /\ outcome' = "loss"
                /\ global_step' = global_step + 1
                /\ params' = params + 1
          /\ ~TrainingReturns => UNCHANGED <<global_step, params>>
          /\ (outcome' = "clusters" /\ pc' = "idle") => UNCHANGED <<global_step, params, lr_used>>
          /\ global_step' = params']_vars

\* C24 witness: an inference call has returned after two training calls.
C24_Witness ==
    /\ Completed
    /\ last_op = "__call__"
    /\ global_step = 2
    /\ params = 2

\* ---------------------------------------------------------------------------
\* Further properties of decoding
\* ---------------------------------------------------------------------------

\* the filled candidate slots of mention i and the score of slot c
RealSlots(i) == 0..(antecedents_len[i] - 1)
SlotScore(i, c) == antecedent_scores[i][c + 1]

\* C25: a mention gets an antecedent only if a real candidate scores strictly
\* above 0; if none does (a tie at 0 and a mention without candidates
\* included) the result is -1; a chosen antecedent is the real candidate with
\* the highest score, the one in the lowest slot among equals, never a padding
\* slot.
C25_ArgmaxPrefersNoAntecedent ==
    Decoded =>
        \A i \in DOMAIN predicted_antecedents :
            /\ (\A c \in RealSlots(i) : SlotScore(i, c) <= 0) => predicted_antecedents[i] = -1
            /\ (RealSlots(i) = {}) => predicted_antecedents[i] = -1
            /\ predicted_antecedents[i] # -1 =>
                  \E c \in RealSlots(i) :
                      /\ predicted_antecedents[i] = antecedents[i][c]
                      /\ SlotScore(i, c) > 0
                      /\ \A d \in RealSlots(i) : SlotScore(i, d) <= SlotScore(i, c)
                      /\ \A d \in RealSlots(i) : d < c => SlotScore(i, d) < SlotScore(i, c)
                      /\ \A d \in 0..(MaxAnt - 1) : d \notin RealSlots(i) => SlotScore(i, d) < SlotScore(i, c)

\* C25 witness: one mention whose only candidate ties with the 'no antecedent'
\* score 0 and gets -1, and one mention with two candidates tied above 0 that
\* gets the one in the lower slot.
C25_Witness ==
    /\ Decoded
    /\ \E j \in DOMAIN predicted_antecedents :
          /\ antecedents_len[j] = 1
          /\ SlotScore(j, 0) = 0
          /\ predicted_antecedents[j] = -1
    /\ \E i \in DOMAIN predicted_antecedents :
          /\ antecedents_len[i] = 2
          /\ SlotScore(i, 0) = SlotScore(i, 1)
          /\ SlotScore(i, 0) > 0
          /\ predicted_antecedents[i] = antecedents[i][0]
          /\ antecedents[i][0] # antecedents[i][1]

MaxClusterMentions == 4

\* the spans of n mentions in the order of the top-mention list: one word each,
\* nested two-word spans, or every span listed twice
ClusterSpanShapes == {"single", "nested", "repeated"}

ClusterSpan(shape, i) ==
    CASE shape = "single" -> <<i, i>>
      [] shape = "nested" -> <<i, i + 1>>
      [] OTHER -> <<i \div 2, i \div 2>>

\* what get_predicted_antecedents returns for n mentions: -1 or the index of
\* an earlier mention
AntecedentChoices(n) ==
    {f \in [0..(n - 1) -> -1..(n - 2)] : \A i \in 0..(n - 1) : f[i] < i}

\* the arguments of one call of get_predicted_clusters
InitClusters ==
    /\ pc = "clusters_input"
    /\ \E n \in 0..MaxClusterMentions :
        /\ \E shape \in ClusterSpanShapes :
            /\ mention_starts = [i \in 0..(n - 1) |-> ClusterSpan(shape, i)[1]]
            /\ mention_ends = [i \in 0..(n - 1) |-> ClusterSpan(shape, i)[2]]
        /\ predicted_antecedents \in AntecedentChoices(n)
    /\ pair_scores = Empty
    /\ mention_scores = Empty
    /\ antecedents = Empty
    /\ antecedents_len = Empty
    /\ antecedent_scores = Empty
    /\ predicted_clusters = Empty
    /\ mention_to_predicted = Empty
    /\ assert_failed = FALSE
    /\ m2p_ids = Empty
    /\ cluster_lists = Empty
    /\ first_result = Empty
    /\ runs = 0
    /\ NoExample
    /\ RestIdle

\* model.py:725-760
GetPredictedClusters ==
    /\ pc = "clusters_input"
    /\ LET st == ClusterLoop(EmptyDecode, mention_starts, mention_ends,
                             predicted_antecedents, 0)
       IN  /\ m2p_ids' = st.m2p
           /\ cluster_lists' = st.clusters
           /\ assert_failed' = st.failed
           /\ predicted_clusters' = IF st.failed THEN predicted_clusters ELSE st.clusters
           /\ mention_to_predicted' = IF st.failed THEN mention_to_predicted
                                      ELSE MentionToPredicted(st)
    /\ runs' = runs + 1
    /\ pc' = "decoded"
    /\ UNCHANGED <<mention_starts, mention_ends, pair_scores, mention_scores, antecedents,
                   antecedents_len, antecedent_scores, predicted_antecedents,
                   first_result, docVars, tensorVars, antecedent_labels, restVars>>

NextClusters == GetPredictedClusters

SpecClusters == InitClusters /\ [][NextClusters]_vars

\* the index of the mention with span sp, the spans being distinct
IndexOf(sp) == CHOOSE i \in DOMAIN mention_starts : SpanOf(i) = sp

WithAntecedent == {i \in DOMAIN predicted_antecedents : predicted_antecedents[i] >= 0}

\* C26: for mentions with pairwise distinct spans every returned cluster has at
\* least two members, lists them in increasing mention index, and starts with
\* the antecedent under which it was created, the earliest of its mentions;
\* the clusters are in the order of their creation (the mention that opened a
\* cluster comes before the one that opened the next); there are at most as
\* many clusters as mentions with an antecedent.
C26_ClusterShape ==
    (Decoded /\ DistinctSpans) =>
        /\ ~assert_failed
        /\ \A k \in DOMAIN predicted_clusters :
              \E cl \in {predicted_clusters[k]} :
                  /\ Size(cl) >= 2
                  /\ DOMAIN cl = 0..(Size(cl) - 1)
                  /\ \A x \in DOMAIN cl : \E i \in DOMAIN mention_starts : SpanOf(i) = cl[x]
                  /\ \A x, y \in DOMAIN cl : x < y => IndexOf(cl[x]) < IndexOf(cl[y])
                  /\ predicted_antecedents[IndexOf(cl[0])] = -1
                  /\ predicted_antecedents[IndexOf(cl[1])] = IndexOf(cl[0])
        /\ \A k, l \in DOMAIN predicted_clusters :
              k < l => IndexOf(predicted_clusters[k][1]) < IndexOf(predicted_clusters[l][1])
        /\ Size(predicted_clusters) <= Cardinality(WithAntecedent)

\* C26 witness: four mentions with distinct spans; the third opens a cluster
\* under the second before the fourth opens one under the first, so the
\* clusters are listed against the order of their first members.
C26_Witness ==
    /\ Decoded
    /\ DistinctSpans
    /\ NumMentions = 4
    /\ predicted_antecedents = [i \in 0..3 |-> IF i = 2 THEN 1 ELSE IF i = 3 THEN 0 ELSE -1]
    /\ Size(predicted_clusters) = 2
    /\ predicted_clusters[0][0] = SpanOf(1)
    /\ predicted_clusters[1][0] = SpanOf(0)

(***************************************************************************)
(* BertRankerModel: the response vectors computed by the constructor       *)
(* (bert_ranker.py:85-89 and the __call__ of 149-179 it invokes).          *)
(***************************************************************************)

MaxResps == 4
MaxBatchSize == 3
MaxRankingSamples == 2

\* q[a:b] of Python for 0 <= a <= b on a list
ListSlice(q, a, b) == SubSeq(q, a + 1, Min(b, Len(q)))

RECURSIVE Concat(_)
Concat(qs) == IF qs = <<>> THEN <<>> ELSE Head(qs) \o Concat(Tail(qs))

\* bert_ranker.py:86-87: one slice for each i in range(len // batch_size + 1)
SplitBatches(features, size) ==
    [i \in 1..(Len(features) \div size + 1) |->
        ListSlice(features, (i - 1) * size, i * size)]

\* the branch __call__ takes after the loop over the batches, lines 161-179
CallBranch(features_list, samples) ==
    IF Len(features_list[1]) = 1 /\ Len(features_list) = 1 THEN "interact"
    ELSE IF Len(features_list) # samples + 1 THEN "vectors"
    ELSE "scores"

\* the arguments of the constructor; the features are numbered in their order
InitRanker ==
    /\ pc = "ranker_args"
    /\ batch_size \in 1..MaxBatchSize
    /\ num_ranking_samples \in 0..MaxRankingSamples
    /\ resps_given \in BOOLEAN
    /\ resp_vecs_given \in BOOLEAN
    /\ \E n \in 0..MaxResps : resp_feature_list = [i \in 1..n |-> i]
    /\ resp_features = <<>>
    /\ resp_vecs = <<>>
    /\ ranker_result = "none"
    /\ NoBase
    /\ NoSelector
    /\ NoEmb
    /\ NoThreads

\* bert_ranker.py:85-89 with the call of line 88.  The session run of line 156
\* on a batch without items is left open: it raises or yields no rows.  The
\* interact branch reads self.resp_vecs.T while self.resp_vecs is None, the
\* scores branch returns scores or raises; neither yields the vectors.
BertRankerInit ==
    /\ pc = "ranker_args"
    /\ pc' = "ranker_built"
    /\ IF resps_given /\ ~resp_vecs_given
       THEN /\ resp_features' = SplitBatches(resp_feature_list, batch_size)
            /\ \/ /\ \E b \in DOMAIN resp_features' : resp_features'[b] = <<>>
                  /\ ranker_result' = "feed_error"
                  /\ resp_vecs' = <<>>
               \/ \E branch \in {CallBranch(resp_features', num_ranking_samples)} :
                      /\ ranker_result' = branch
                      /\ resp_vecs' = IF branch = "vectors" THEN Concat(resp_features')
                                      ELSE <<>>
       ELSE /\ ranker_result' = "skipped"
            /\ UNCHANGED <<resp_features, resp_vecs>>
    /\ UNCHANGED <<batch_size, num_ranking_samples, resps_given, resp_vecs_given,
                   resp_feature_list, baseVars, selectorVars, embVars, threadVars>>

NextRanker == BertRankerInit

SpecRanker == InitRanker /\ [][NextRanker]_vars

Precomputed == pc = "ranker_built" /\ resps_given /\ ~resp_vecs_given

\* C27 as stated: when the constructor precomputes the response vectors, the
\* batches hold between 1 and batch_size features each and concatenate to the
\* feature list, and the call returns the stacked vectors, one row for each
\* response, in order.
C27_Original ==
    Precomputed =>
        /\ \A b \in DOMAIN resp_features :
              Len(resp_features[b]) >= 1 /\ Len(resp_features[b]) <= batch_size
        /\ Concat(resp_features) = resp_feature_list
        /\ ranker_result = "vectors"
        /\ resp_vecs = resp_feature_list

====
